---- MODULE Spec2Model ----
(***************************************************************************)
(* Adaptive Metropolis proposal (kernel_hmc/proposals/adaptive_metropolis). *)
(*                                                                         *)
(* Numbers.  Real arithmetic is modelled exactly:                          *)
(*   - a rational is a record [n, d] in lowest terms with d > 0;           *)
(*   - the scale nu2 is a record [c, e] standing for c * exp(e), c and e   *)
(*     rational, so that np.log / np.exp of line 210-211 are exact;        *)
(*   - an entry of a covariance is a finite sum of such terms, kept as the *)
(*     set of its terms (distinct exponents, non-zero coefficients).       *)
(* Floating-point rounding is not modelled.                                *)
(*                                                                         *)
(* Factors.  A Cholesky factor L is represented by the matrix L * L^T it   *)
(* factorises (a lower-triangular factor with positive diagonal and its    *)
(* product determine each other).  np.eye(D) * s is therefore GramOfEye    *)
(* of s * s, cholupdate(L, v) adds v v^T, and np.linalg.cholesky(M) either *)
(* raises LinAlgError (M not positive definite) or yields M.               *)
(***************************************************************************)
EXTENDS Integers, Sequences, FiniteSets, TLC

VARIABLES
  pc,                   \* "new" (before __init__), "live", "failed" (an assert of __init__ raised)
  cholupdate_available, \* module flag, line 7-11
  D, nu2, gamma2, schedule, acc_star,   \* fields set by __init__
  t, mu, L_C,           \* fields set by _initialise
  op,                   \* the last call made
  exc,                  \* what the last call raised, "none" when it returned
  z_new, accept_prob,   \* arguments of the last update call
  Z,                    \* argument of the last set_batch_covariance call
  batch_called,         \* history: set_batch_covariance has been called
  batch_done,           \* history: a set_batch_covariance call has returned
  est                   \* inputs and results of a direct call of the two estimators

vars == <<pc, cholupdate_available, D, nu2, gamma2, schedule, acc_star,
          t, mu, L_C, op, exc, z_new, accept_prob, Z, batch_called, batch_done, est>>

-----------------------------------------------------------------------------
(* Rationals *)

Abs(x) == IF x < 0 THEN -x ELSE x

RECURSIVE Gcd(_, _)
Gcd(a, b) == IF b = 0 THEN a ELSE Gcd(b, a % b)

Rat(n, d) ==
  LET g == Gcd(Abs(n), Abs(d))
      s == IF d < 0 THEN -1 ELSE 1
  IN  [n |-> s * (n \div g), d |-> s * (d \div g)]

Zero == [n |-> 0, d |-> 1]
One  == [n |-> 1, d |-> 1]
RInt(k) == [n |-> k, d |-> 1]

\* Common factors are divided out before multiplying, to keep the
\* intermediate integers small.
RAdd(a, b) ==
  LET g == Gcd(a.d, b.d)
  IN  Rat(a.n * (b.d \div g) + b.n * (a.d \div g), (a.d \div g) * b.d)
RNeg(a)    == [n |-> -a.n, d |-> a.d]
RSub(a, b) == RAdd(a, RNeg(b))
RMul(a, b) ==
  IF a.n = 0 \/ b.n = 0 THEN Zero
  ELSE LET g1 == Gcd(Abs(a.n), b.d)
           g2 == Gcd(Abs(b.n), a.d)
       IN  [n |-> (a.n \div g1) * (b.n \div g2), d |-> (a.d \div g2) * (b.d \div g1)]
RLt(a, b)  == LET g == Gcd(a.d, b.d) IN a.n * (b.d \div g) < b.n * (a.d \div g)
RLe(a, b)  == LET g == Gcd(a.d, b.d) IN a.n * (b.d \div g) <= b.n * (a.d \div g)
RAbs(a)    == [n |-> Abs(a.n), d |-> a.d]

\* Python's None for a number, a vector and a matrix.
NoneNum == [n |-> 0, d |-> 0]
None == <<>>

-----------------------------------------------------------------------------
(* c * exp(e) and finite sums of such terms *)

Nu(r) == [c |-> r, e |-> Zero]
NuMul(a, b) ==
  LET c == RMul(a.c, b.c)
  IN  IF c = Zero THEN Nu(Zero) ELSE [c |-> c, e |-> RAdd(a.e, b.e)]
\* a < b for two values c * exp(e) with the same coefficient c
NuLt(a, b) == a.c = b.c /\ ((RLt(Zero, a.c) /\ RLt(a.e, b.e)) \/ (RLt(a.c, Zero) /\ RLt(b.e, a.e)))
NuPositive(a) == RLt(Zero, a.c)

PExps(p) == {x.e : x \in p}
PCoef(p, e) == IF \E x \in p : x.e = e THEN (CHOOSE x \in p : x.e = e).c ELSE Zero
PNorm(p) == {x \in p : x.c # Zero}
PRat(r) == PNorm({[c |-> r, e |-> Zero]})
PNu(a) == PNorm({a})
PAdd(p, q) == PNorm({[c |-> RAdd(PCoef(p, e), PCoef(q, e)), e |-> e] : e \in PExps(p) \cup PExps(q)})
PScale(r, p) == PNorm({[c |-> RMul(r, x.c), e |-> x.e] : x \in p})

RECURSIVE PSum(_)
\* the sum of the coefficients: the value at exp = 1
PSum(p) == IF p = {} THEN Zero
           ELSE LET x == CHOOSE y \in p : TRUE IN RAdd(x.c, PSum(p \ {x}))

-----------------------------------------------------------------------------
(* Vectors and matrices *)

Idx(n) == 1 .. n
RVec(v) == [i \in Idx(Len(v)) |-> RInt(v[i])]      \* a vector of integers as rationals
VZeros(n) == [i \in Idx(n) |-> Zero]               \* np.zeros(n)
VAdd(a, b) == [i \in Idx(Len(a)) |-> RAdd(a[i], b[i])]
VSub(a, b) == [i \in Idx(Len(a)) |-> RSub(a[i], b[i])]
VScale(r, a) == [i \in Idx(Len(a)) |-> RMul(r, a[i])]
Outer(a, b) == [i \in Idx(Len(a)) |-> [j \in Idx(Len(b)) |-> RMul(a[i], b[j])]]   \* np.outer

MAdd(A, B) == [i \in Idx(Len(A)) |-> [j \in Idx(Len(A)) |-> PAdd(A[i][j], B[i][j])]]
MScale(r, A) == [i \in Idx(Len(A)) |-> [j \in Idx(Len(A)) |-> PScale(r, A[i][j])]]
\* a * R for a = c * exp(e) and a rational matrix R
MNu(a, R) == [i \in Idx(Len(R)) |-> [j \in Idx(Len(R)) |-> PNu(NuMul(a, Nu(R[i][j])))]]
MEye(n) == [i \in Idx(n) |-> [j \in Idx(n) |-> IF i = j THEN One ELSE Zero]]   \* np.eye(n)
\* L L^T for the factor L = np.eye(n) * s, given s2 = s * s
GramOfEye(n, s2) == MNu(s2, MEye(n))
IsSquare(A, n) == Len(A) = n /\ \A i \in Idx(Len(A)) : Len(A[i]) = n

\* np.linalg.cholesky succeeds iff its argument is positive definite.  Every
\* matrix it is given here is a sum of positive semi-definite rational
\* matrices weighted by positive terms exp(e) (nu2 >= 0 and gamma2 >= 0 in all
\* inputs drawn below), whose null space does not depend on the weights, so it
\* is positive definite iff its value at weights 1 is.  Dimensions 1 and 2.
PosDef(A) ==
  LET a(i, j) == PSum(A[i][j])
  IN  IF Len(A) = 1 THEN RLt(Zero, a(1, 1))
      ELSE /\ RLt(Zero, a(1, 1))
           /\ RLt(Zero, RSub(RMul(a(1, 1), a(2, 2)), RMul(a(1, 2), a(2, 1))))

-----------------------------------------------------------------------------
(* The two estimators *)

\* np.sqrt(s2) * w, kept as the pair (s2, w)
SqrtScaled(s2, w) == [s2 |-> s2, w |-> w]

\* choldate's cholupdate(R, v): the factor of R^T R + v v^T
cholupdate(R, v) == MAdd(R, MNu(v.s2, Outer(v.w, v.w)))

\* e_d[:] = 0; e_d[d] = 1, the direction of line 58-59
BasisVec(n, d) == [i \in Idx(n) |-> IF i = d THEN One ELSE Zero]

Raised(e) == [exc |-> e, mean |-> None, cov_L |-> None]
Returned(m, L) == [exc |-> "none", mean |-> m, cov_L |-> L]

\* assert lmbda >= 0 and lmbda <= 1
LmbdaInRange(lmbda) == RLe(Zero, lmbda) /\ RLe(lmbda, One)

\* the asserts of the else branch, line 37-41 and 107-111
ShapesAgree(mean, cov_L, n) == Len(mean) = n /\ IsSquare(cov_L, n)

\* cov_L = np.eye(D) * nu2 of line 35 and 105, as the product it factorises
FirstTermCovL(n, nu) == GramOfEye(n, NuMul(nu, nu))

\* updated_mean = (1 - lmbda) * mean + lmbda * u
UpdatedMean(u, lmbda, mean) == VAdd(VScale(RSub(One, lmbda), mean), VScale(lmbda, u))

RECURSIVE IsotropicLoop(_, _, _, _, _)
\* for d in range(D): cholupdate(update_cov_L, np.sqrt(lmbda) * e_d), line 57-64
IsotropicLoop(R, d, n, lmbda, g2) ==
  IF d > n THEN R
  ELSE IsotropicLoop(cholupdate(R, SqrtScaled(Nu(RMul(lmbda, g2)), BasisVec(n, d))),
                     d + 1, n, lmbda, g2)

rank_one_update_mean_covariance_cholesky_lmbda(u, lmbda, mean, cov_L, nu, g2) ==
  IF ~LmbdaInRange(lmbda) THEN Raised("AssertionError")
  ELSE
    LET n == Len(u)
        first == mean = None \/ cov_L = None
    IN  IF ~first /\ ~ShapesAgree(mean, cov_L, n) THEN Raised("AssertionError")
        ELSE
          LET mean0 == IF first THEN VZeros(n) ELSE mean
              cov_L0 == IF first THEN FirstTermCovL(n, nu) ELSE cov_L
              updated_mean == UpdatedMean(u, lmbda, mean0)
              scaled == MScale(RSub(One, lmbda), cov_L0)
              update_vec == SqrtScaled(NuMul(Nu(lmbda), nu), VSub(u, mean0))
              ranked == cholupdate(scaled, update_vec)
              update_cov_L == IF g2 # NoneNum
                              THEN IsotropicLoop(ranked, 1, n, lmbda, g2)
                              ELSE ranked
          IN  Returned(updated_mean, update_cov_L)

\* update_cov += np.eye(update_cov.shape[0]) * gamma2, line 124-125
NaiveIsotropic(cov, lmbda, g2) ==
  IF g2 # NoneNum THEN MAdd(cov, MNu(Nu(g2), MEye(Len(cov)))) ELSE cov

rank_update_mean_covariance_cholesky_lmbda_naive(u, lmbda, mean, cov_L, nu, g2) ==
  IF ~LmbdaInRange(lmbda) THEN Raised("AssertionError")
  ELSE
    LET n == Len(u)
        first == mean = None \/ cov_L = None
    IN  IF ~first /\ ~ShapesAgree(mean, cov_L, n) THEN Raised("AssertionError")
        ELSE
          LET mean0 == IF first THEN VZeros(n) ELSE mean
              cov_L0 == IF first THEN FirstTermCovL(n, nu) ELSE cov_L
              updated_mean == UpdatedMean(u, lmbda, mean0)
              update_vec == VSub(u, mean0)
              blended == MAdd(MScale(RSub(One, lmbda), cov_L0),
                              MNu(NuMul(Nu(lmbda), nu), Outer(update_vec, update_vec)))
              update_cov == NaiveIsotropic(blended, lmbda, g2)
          IN  IF PosDef(update_cov) THEN Returned(updated_mean, update_cov)
              ELSE Raised("LinAlgError")

-----------------------------------------------------------------------------
(* Bounds and the inputs drawn *)

MaxT == 2          \* update is called at most MaxT times

ProbeLen == 100    \* np.arange(100)

Dims == {1, 2}
\* nu2 and gamma2 as passed to __init__, which does not check them.  Negative
\* values (np.sqrt and np.log of which are nan) are not drawn, and gamma2 is a
\* number (the estimators called directly also take gamma2 = None).
Nu2Values == {Zero, RInt(2)}
Gamma2Values == {Zero, One}
AccStarValues == {NoneNum, Rat(234, 1000), One}
AcceptProbs == {Rat(1, 10), Rat(1, 2)}
Vectors == {RVec(<<1>>), RVec(<<1, 1>>), RVec(<<0, 1>>)}
Batches == { <<RVec(<<0>>), RVec(<<2>>)>>,
             <<RVec(<<1>>), RVec(<<1>>)>>,
             <<RVec(<<0, 0>>), RVec(<<3, 0>>), RVec(<<0, 3>>)>> }

\* The schedules passed to __init__: "none" is schedule=None, the others are
\* the functions of schedule_fn.
Schedules == {"none", "harmonic", "two", "nearly", "rising", "negative"}

schedule_fn(s, k) ==
  CASE s = "harmonic" -> Rat(1, k + 1)                  \* 1/(t+1)
    [] s = "two"      -> RInt(2)                        \* constant 2
    [] s = "nearly"   -> IF k = 5 THEN Rat(131073, 262144) ELSE Rat(1, 2)  \* 1/2, but 1/2 + 2^-18 at t = 5
    [] s = "rising"   -> Rat(k, k + 1)                  \* t/(t+1)
    [] s = "negative" -> Rat(-1, 2)                     \* constant -1/2

-----------------------------------------------------------------------------
(* AdaptiveMetropolis *)

\* np.sort(x)[::-1]
SortDescending(x) ==
  LET R  == {x[j] : j \in DOMAIN x}
      gt == [v \in R |-> Cardinality({j \in DOMAIN x : RLt(v, x[j])})]
      ge == [v \in R |-> Cardinality({j \in DOMAIN x : RLe(v, x[j])})]
  IN  [i \in DOMAIN x |-> CHOOSE v \in R : gt[v] < i /\ i <= ge[v]]

\* numpy's defaults rtol = 1e-05 and atol = 1e-08, as 1/rtol and 1/atol
AllcloseRtolInv == 100000
AllcloseAtolInv == 100000000

\* |a - b| <= atol + rtol * |b|, multiplied through by 1/atol.  The first test
\* (a difference above (1 + |b|) / 1000 is above the tolerance) only keeps the
\* integers of the second small.
IsClose(a, b) ==
  LET diff == RAbs(RSub(a, b))
  IN  IF RLt(RMul(Rat(1, 1000), RAdd(One, RAbs(b))), diff) THEN FALSE
      ELSE RLe(RMul(RInt(AllcloseAtolInv), diff),
               RAdd(One, RMul(RInt(AllcloseAtolInv \div AllcloseRtolInv), RAbs(b))))

\* np.allclose(a, b)
Allclose(a, b) == \A i \in DOMAIN a : IsClose(a[i], b[i])

\* lmbdas = np.array([schedule(t) for t in np.arange(100)])
Lmbdas(s) == [i \in 1 .. ProbeLen |-> schedule_fn(s, i - 1)]

\* assert np.all(lmbdas >= 0)
ProbeNonNegative(lm) == \A i \in DOMAIN lm : RLe(Zero, lm[i])

\* assert np.allclose(np.sort(lmbdas)[::-1], lmbdas)
ProbeSorted(lm) == Allclose(SortDescending(lm), lm)

\* assert acc_star is None or acc_star > 0 and acc_star < 1
AccStarOk(a) == a = NoneNum \/ (RLt(Zero, a) /\ RLt(a, One))

\* the two asserts on the probed values, line 175-177
ProbeOk(s) == ProbeNonNegative(Lmbdas(s)) /\ ProbeSorted(Lmbdas(s))

\* ProbeOk of each schedule, evaluated once
ProbeTable == [s \in Schedules \ {"none"} |-> ProbeOk(s)]

\* the sanity checks of __init__, line 172-177
SanityChecks(s, a) ==
  /\ AccStarOk(a)
  /\ s # "none" => ProbeTable[s]

\* self.L_C = np.eye(self.D) * np.sqrt(self.nu2), as the product it factorises
InitialLC(n, nu) == GramOfEye(n, nu)

_initialise(s, n, nu) ==
  /\ t' = 0
  /\ mu' = IF s # "none" THEN VZeros(n) ELSE None
  /\ L_C' = IF s # "none" THEN InitialLC(n, nu) ELSE None

__init__(n, nu, g2, s, a) ==
  /\ pc = "new"
  /\ D' = n /\ nu2' = Nu(nu) /\ gamma2' = g2 /\ schedule' = s /\ acc_star' = a
  /\ op' = "__init__"
  /\ IF SanityChecks(s, a)
     THEN /\ pc' = "live" /\ exc' = "none"
          /\ _initialise(s, n, Nu(nu))
     ELSE /\ pc' = "failed" /\ exc' = "AssertionError"
          /\ UNCHANGED <<t, mu, L_C>>
  /\ UNCHANGED <<cholupdate_available, z_new, accept_prob, Z, batch_called, batch_done, est>>

RECURSIVE VSum(_, _)
VSum(S, k) == IF k = 0 THEN VZeros(Len(S[1])) ELSE VAdd(VSum(S, k - 1), S[k])

\* np.mean(Z, axis=0)
BatchMean(S) == VScale(Rat(1, Len(S)), VSum(S, Len(S)))

RECURSIVE CovSum(_, _, _, _, _)
CovSum(S, m, i, j, k) ==
  IF k = 0 THEN Zero
  ELSE RAdd(CovSum(S, m, i, j, k - 1), RMul(RSub(S[k][i], m[i]), RSub(S[k][j], m[j])))

\* np.cov(Z.T): the sample covariance, normalised by N - 1
BatchCov(S) ==
  LET m == BatchMean(S)
      n == Len(S[1])
  IN  [i \in Idx(n) |-> [j \in Idx(n) |-> RMul(Rat(1, Len(S) - 1), CovSum(S, m, i, j, Len(S)))]]

\* self.nu2 * np.cov(Z.T) + np.eye(Z.shape[1]) * self.gamma2
BatchMatrix(S, nu, g2) == MAdd(MNu(nu, BatchCov(S)), MNu(Nu(g2), MEye(Len(S[1]))))

\* what line 201 raises: np.eye(..) * None is a TypeError, np.linalg.cholesky
\* of a matrix that is not positive definite a LinAlgError
BatchRaises(S, nu, g2) ==
  IF g2 = NoneNum THEN "TypeError"
  ELSE IF ~PosDef(BatchMatrix(S, nu, g2)) THEN "LinAlgError"
  ELSE "none"

set_batch_covariance(S) ==
  /\ pc = "live"
  /\ op' = "set_batch_covariance" /\ Z' = S
  /\ z_new' = None /\ accept_prob' = NoneNum
  /\ batch_called' = TRUE
  /\ mu' = BatchMean(S)
  /\ exc' = BatchRaises(S, nu2, gamma2)
  /\ IF BatchRaises(S, nu2, gamma2) = "none"
     THEN L_C' = BatchMatrix(S, nu2, gamma2) /\ batch_done' = TRUE
     ELSE UNCHANGED <<L_C, batch_done>>
  /\ UNCHANGED <<pc, cholupdate_available, D, nu2, gamma2, schedule, acc_star, t, est>>

\* np.log(nu2) + x and np.exp of it, for nu2 = c * exp(e): log(0) is -inf and
\* exp(-inf) is 0
NpLog(nu) == [base |-> nu.c, off |-> nu.e]
LogPlus(l, x) == IF l.base = Zero THEN l ELSE [base |-> l.base, off |-> RAdd(l.off, x)]
NpExp(l) == IF l.base = Zero THEN Nu(Zero) ELSE [c |-> l.base, e |-> l.off]

\* the value _update_scaling stores in self.nu2, with self.t = k
_update_scaling(s, k, nu, a, p) ==
  LET lmbda == schedule_fn(s, k)
      diff == RSub(p, a)
      new_log_nu2 == LogPlus(NpLog(nu), RMul(lmbda, diff))
  IN  NpExp(new_log_nu2)

\* a counter advanced twice per call
IncrementT_Twice(k) == k + 2

\* self.t += 1
IncrementT(k) == k + 1

\* lmbda = self.schedule(self.t), after the increment
UpdateLmbda(s, k) == schedule_fn(s, k)

\* the estimator update calls, line 233-248
Estimate(avail, u, lmbda, mean, cov_L, nu, g2) ==
  IF avail THEN rank_one_update_mean_covariance_cholesky_lmbda(u, lmbda, mean, cov_L, nu, g2)
  ELSE rank_update_mean_covariance_cholesky_lmbda_naive(u, lmbda, mean, cov_L, nu, g2)

\* if self.acc_star is not None: self._update_scaling(previous_accpept_prob)
ScaledNu2(s, k, nu, a, p) == IF a # NoneNum THEN _update_scaling(s, k, nu, a, p) ELSE nu

update(u, p) ==
  /\ pc = "live"
  /\ t < MaxT
  /\ op' = "update" /\ z_new' = u /\ accept_prob' = p /\ Z' = None
  /\ t' = IncrementT(t)
  /\ IF schedule # "none"
     THEN LET r == Estimate(cholupdate_available, u, UpdateLmbda(schedule, t'),
                            mu, L_C, nu2, gamma2)
          IN  /\ exc' = r.exc
              /\ IF r.exc = "none"
                 THEN /\ mu' = r.mean /\ L_C' = r.cov_L
                      /\ nu2' = ScaledNu2(schedule, t', nu2, acc_star, p)
                 ELSE UNCHANGED <<mu, L_C, nu2>>
     ELSE exc' = "none" /\ UNCHANGED <<mu, L_C, nu2>>
  /\ UNCHANGED <<pc, cholupdate_available, D, gamma2, schedule, acc_star,
                 batch_called, batch_done, est>>

\* the test of line 259 without its "or self.L_C is None"
NotSeenData_MeanOnly(s, mean, cov_L) == s = "none" /\ mean = None

\* the test of line 259
NotSeenData(s, mean, cov_L) == s = "none" /\ (mean = None \/ cov_L = None)

\* proposal reads the state and draws; it assigns no field
proposal ==
  /\ pc = "live"
  /\ op' = "proposal" /\ z_new' = None /\ accept_prob' = NoneNum /\ Z' = None
  /\ exc' = IF NotSeenData(schedule, mu, L_C) THEN "ValueError" ELSE "none"
  /\ UNCHANGED <<pc, cholupdate_available, D, nu2, gamma2, schedule, acc_star, t, mu, L_C,
                 batch_called, batch_done, est>>

Init ==
  /\ pc = "new"
  /\ cholupdate_available \in BOOLEAN
  /\ D = 0 /\ nu2 = Nu(Zero) /\ gamma2 = NoneNum /\ schedule = "none" /\ acc_star = NoneNum
  /\ t = 0 /\ mu = None /\ L_C = None
  /\ op = "none" /\ exc = "none"
  /\ z_new = None /\ accept_prob = NoneNum /\ Z = None
  /\ batch_called = FALSE /\ batch_done = FALSE
  /\ est = None

Next ==
  \/ \E n \in Dims, nu \in Nu2Values, g2 \in Gamma2Values, s \in Schedules, a \in AccStarValues :
        __init__(n, nu, g2, s, a)
  \/ \E S \in Batches : set_batch_covariance(S)
  \/ \E u \in Vectors, p \in AcceptProbs : update(u, p)
  \/ proposal

Spec == Init /\ [][Next]_vars

-----------------------------------------------------------------------------
(* The two estimators called directly, on the same arguments *)

PMat(M) == [i \in Idx(Len(M)) |-> [j \in Idx(Len(M)) |-> PRat(RInt(M[i][j]))]]

EstLmbdas == {Zero, Rat(1, 2), One, RInt(2)}
EstMeans == {None, RVec(<<0>>), RVec(<<1>>), RVec(<<0, 0>>), RVec(<<1, 0>>)}
\* factors given by the products they factorise
EstCovLs == {None, PMat(<<<<1>>>>), PMat(<<<<2, 0>>, <<0, 2>>>>), PMat(<<<<2, 1>>, <<1, 2>>>>)}
EstNu2 == {One, RInt(2)}
EstGamma2 == {NoneNum, Zero, One}

NotCalled == [exc |-> "notcalled", mean |-> None, cov_L |-> None]

InitEst ==
  /\ pc = "estimators"
  /\ cholupdate_available = TRUE
  /\ D = 0 /\ nu2 = Nu(Zero) /\ gamma2 = NoneNum /\ schedule = "none" /\ acc_star = NoneNum
  /\ t = 0 /\ mu = None /\ L_C = None
  /\ op = "none" /\ exc = "none"
  /\ z_new = None /\ accept_prob = NoneNum /\ Z = None
  /\ batch_called = FALSE /\ batch_done = FALSE
  /\ est \in [u : Vectors, lmbda : EstLmbdas, mean : EstMeans, cov_L : EstCovLs,
              nu : {Nu(x) : x \in EstNu2}, g2 : EstGamma2,
              eff : {NotCalled}, naive : {NotCalled}]

CallEfficient ==
  /\ pc = "estimators" /\ est.eff = NotCalled
  /\ est' = [est EXCEPT !.eff = rank_one_update_mean_covariance_cholesky_lmbda(
                                   est.u, est.lmbda, est.mean, est.cov_L, est.nu, est.g2)]
  /\ UNCHANGED <<pc, cholupdate_available, D, nu2, gamma2, schedule, acc_star,
                 t, mu, L_C, op, exc, z_new, accept_prob, Z, batch_called, batch_done>>

CallNaive ==
  /\ pc = "estimators" /\ est.naive = NotCalled
  /\ est' = [est EXCEPT !.naive = rank_update_mean_covariance_cholesky_lmbda_naive(
                                   est.u, est.lmbda, est.mean, est.cov_L, est.nu, est.g2)]
  /\ UNCHANGED <<pc, cholupdate_available, D, nu2, gamma2, schedule, acc_star,
                 t, mu, L_C, op, exc, z_new, accept_prob, Z, batch_called, batch_done>>

NextEst == CallEfficient \/ CallNaive

SpecEst == InitEst /\ [][NextEst]_vars

-----------------------------------------------------------------------------
(* Properties *)

Live == pc = "live"
\* the Uninitialized state: the running mean or the factor is absent
Absent == mu = None \/ L_C = None

\* the parts of C1 that do not mention set_batch_covariance
C1_Common ==
  /\ (op' = "proposal" => (exc' = "ValueError" <=> Absent'))
  /\ ((Live /\ ~Absent) => ~Absent')

\* C1, as claimed: proposal raises NotReady (ValueError) exactly when the mean
\* or the factor is absent; that happens only with no schedule and before any
\* set_batch_covariance call; once present, mean and factor stay present.
C1_Original ==
  [][Live' => (C1_Common /\ (Absent' => (schedule' = "none" /\ ~batch_called')))]_vars

\* C1, amended: as C1_Original, but the absent states are those with no
\* schedule in which no set_batch_covariance call has returned yet (a call
\* that raises leaves the factor absent).
C1_Amended ==
  [][Live' => (C1_Common /\ (Absent' => (schedule' = "none" /\ ~batch_done')))]_vars

\* proposal raised NotReady after a set_batch_covariance call that raised, in a
\* controller with nu2 > 0 and gamma2 = 0
C1_Witness ==
  /\ Live /\ NuPositive(nu2) /\ gamma2 = Zero
  /\ op = "proposal" /\ exc = "ValueError" /\ batch_called /\ ~batch_done /\ mu # None

\* C2: every update call adds exactly one to t, which starts at 0; with no
\* schedule it raises nothing and changes nothing else.
C2_UpdateCounts ==
  [][/\ (op' = "__init__" /\ Live') => t' = 0
     /\ op' = "update" =>
          /\ t' = t + 1
          /\ schedule = "none" =>
               (exc' = "none" /\ UNCHANGED <<mu, L_C, nu2, pc, D, gamma2, schedule, acc_star>>)]_vars

\* a second update without a schedule, on a vector of another length than D
C2_Witness ==
  Live /\ op = "update" /\ schedule = "none" /\ t = 2 /\ exc = "none" /\ Len(z_new) # D

\* the requirements C3 puts on the arguments
EstArgsValid ==
  /\ LmbdaInRange(est.lmbda)
  /\ NuPositive(est.nu)
  /\ (est.g2 = NoneNum \/ RLe(Zero, est.g2))

\* C3: on the same valid arguments, the efficient and the naive estimator
\* return the same mean and factors of the same covariance.
C3_Original ==
  (pc = "estimators" /\ EstArgsValid /\ est.eff.exc = "none" /\ est.naive.exc = "none")
    => (est.eff.mean = est.naive.mean /\ est.eff.cov_L = est.naive.cov_L)

\* gamma2 as a number: unset adds nothing
GammaOrZero(g2) == IF g2 = NoneNum THEN Zero ELSE g2

\* (1 - lmbda) * cov + lmbda * (nu * (u - mean)(u - mean)^T + g2 * I)
RuleCov(cov, mean, u, lmbda, nu, g2) ==
  MAdd(MScale(RSub(One, lmbda), cov),
       MAdd(MNu(NuMul(Nu(lmbda), nu), Outer(VSub(u, mean), VSub(u, mean))),
            MNu(Nu(RMul(lmbda, GammaOrZero(g2))), MEye(Len(u)))))

\* (1 - lmbda) * mean + lmbda * u
RuleMean(mean, u, lmbda) ==
  [i \in Idx(Len(u)) |-> RAdd(RMul(RSub(One, lmbda), mean[i]), RMul(lmbda, u[i]))]

\* C4: with a schedule, the k-th update that returns uses lmbda = schedule(k)
\* and replaces mean and covariance by the rule of section 4.1, with the nu2
\* of before the call, whichever estimator is in use.
C4_Original ==
  [][(op' = "update" /\ schedule # "none" /\ exc' = "none") =>
       LET lmbda == schedule_fn(schedule, t + 1)
       IN  /\ mu' = RuleMean(mu, z_new', lmbda)
           /\ L_C' = RuleCov(L_C, mu, z_new', lmbda, nu2, gamma2)]_vars

\* C5: an update that raises on lmbda outside [0,1] or on a vector of the
\* wrong length (both are AssertionError) leaves t, mean, factor and nu2 as
\* they were.
C5_Original ==
  [][(op' = "update" /\ exc' = "AssertionError") => UNCHANGED <<t, mu, L_C, nu2>>]_vars

\* per schedule: some probed value is negative; some probed value exceeds its
\* predecessor
ProbeFacts ==
  [s \in Schedules \ {"none"} |->
     [negative |-> \E i \in 0 .. ProbeLen - 1 : RLt(schedule_fn(s, i), Zero),
      rises |-> \E i \in 0 .. ProbeLen - 2 : RLt(schedule_fn(s, i), schedule_fn(s, i + 1))]]

\* C6: with a valid acc_star, construction fails exactly when a schedule is
\* given and one of its first 100 values is negative or exceeds its
\* predecessor.
C6_Original ==
  (pc \in {"live", "failed"} /\ AccStarOk(acc_star)) =>
     (pc = "failed" <=>
        (schedule # "none" /\ (ProbeFacts[schedule].negative \/ ProbeFacts[schedule].rises)))

\* C7: an update that returns, with acc_star and a schedule, sets log(nu2) to
\* log(nu2) + lmbda_t * (p - acc_star), so nu2 strictly falls for p below
\* acc_star and strictly rises for p above it (lmbda_t > 0); every other call
\* leaves nu2 alone.
C7_Original ==
  [][Live =>
       IF op' = "update" /\ acc_star # NoneNum /\ schedule # "none" /\ exc' = "none"
       THEN LET lmbda == schedule_fn(schedule, t + 1)
                p == accept_prob'
            IN  /\ NpLog(nu2') = LogPlus(NpLog(nu2), RMul(lmbda, RSub(p, acc_star)))
                /\ (RLt(Zero, lmbda) /\ RLt(p, acc_star)) => NuLt(nu2', nu2)
                /\ (RLt(Zero, lmbda) /\ RLt(acc_star, p)) => NuLt(nu2, nu2')
       ELSE nu2' = nu2]_vars

\* C8: in every state of a constructed controller nu2 > 0, gamma2 >= 0 and
\* acc_star, when given, is in (0,1).
C8_Original ==
  Live => (NuPositive(nu2) /\ (gamma2 = NoneNum \/ RLe(Zero, gamma2)) /\ AccStarOk(acc_star))

\* C9: the stored mean and factor have dimension D, and an update or
\* set_batch_covariance whose vectors have another length raises.
C9_Original ==
  Live =>
    /\ ~Absent => (Len(mu) = D /\ IsSquare(L_C, D))
    /\ (op = "update" /\ Len(z_new) # D) => exc = "AssertionError"
    /\ (op = "set_batch_covariance" /\ Len(Z[1]) # D) => exc = "AssertionError"

\* C10: called with the mean or the factor absent, each estimator returns what
\* it returns from mean 0 and the factor sqrt(nu2) * I that _initialise
\* installs.
C10_Original ==
  (pc = "estimators" /\ LmbdaInRange(est.lmbda) /\ (est.mean = None \/ est.cov_L = None)) =>
    LET n == Len(est.u)
    IN  /\ est.eff # NotCalled =>
             est.eff = rank_one_update_mean_covariance_cholesky_lmbda(
                          est.u, est.lmbda, VZeros(n), InitialLC(n, est.nu), est.nu, est.g2)
        /\ est.naive # NotCalled =>
             est.naive = rank_update_mean_covariance_cholesky_lmbda_naive(
                          est.u, est.lmbda, VZeros(n), InitialLC(n, est.nu), est.nu, est.g2)

=============================================================================
